---- MODULE Spec2Model ----
(***************************************************************************)
(* botkube: the chat command executor (package execute, DefaultExecutor)   *)
(* and the image-tag filter (package filters, ImageTagChecker).            *)
(*                                                                         *)
(* Go strings are modelled as sequences of one-character strings, so that  *)
(* == , strings.HasPrefix, strings.Fields, strings.SplitAfterN,            *)
(* strings.Split and strings.TrimFunc are computed as Go computes them.    *)
(***************************************************************************)
EXTENDS Integers, Sequences, FiniteSets, TLC

VARIABLES
    pc,           \* position of the caller: "idle", "ready", "done", "panic"
    e,            \* the DefaultExecutor built for the message in hand
    response,     \* what Execute returned
    runnerCalls,  \* the CommandRunner invocations Execute made
    Notify,       \* config.Notify, the process-wide notifier flag
    FiltersMap,   \* filterengine.DefaultFilterEngine's map: filter -> enabled
    configFile,   \* the file at CONFIG_PATH/ConfigFileName
    lastToggle,   \* history: what the last start/stop of an authorized channel set
    object,       \* the resource object handed to a filter
    event,        \* the events.Event handed to a filter
    goroutines,   \* the Slack.SendEvent and Slack.SendMessage calls not yet run
    posts,        \* per event sent, the PostMessage attempts made for it, in order
    sent          \* the number of events handed to Slack.SendEvent so far

vars == <<pc, e, response, runnerCalls, Notify, FiltersMap, configFile,
          lastToggle, object, event, goroutines, posts, sent>>

\* the state of the Slack notifier
slackVars == <<goroutines, posts, sent>>

(***************************************************************************)
(* Bounds of the model.                                                    *)
(***************************************************************************)
\* the number of tokens a generated cluster-command message carries after its verb
MaxArgs == 3
\* the number of init-containers, and of containers, of a generated Pod
MaxContainers == 2
\* the number of events handed to the Slack notifier
MaxEvents == 2

(***************************************************************************)
(* strings                                                                 *)
(***************************************************************************)
HasPrefix(s, prefix) ==
    /\ Len(s) >= Len(prefix)
    /\ SubSeq(s, 1, Len(prefix)) = prefix

\* strings.Index, 1-based; 0 when sep does not occur in s
Index(s, sep) ==
    LET hits == {i \in 1..(Len(s) - Len(sep) + 1) : SubSeq(s, i, i + Len(sep) - 1) = sep}
    IN  IF hits = {} THEN 0 ELSE CHOOSE i \in hits : \A j \in hits : i <= j

RECURSIVE SplitAfterN(_, _, _)
SplitAfterN(s, sep, n) ==
    LET i == Index(s, sep)
    IN  IF n = 1 \/ i = 0
        THEN <<s>>
        ELSE <<SubSeq(s, 1, i + Len(sep) - 1)>>
             \o SplitAfterN(SubSeq(s, i + Len(sep), Len(s)), sep, n - 1)

RECURSIVE Split(_, _)
Split(s, sep) ==
    LET i == Index(s, sep)
    IN  IF i = 0
        THEN <<s>>
        ELSE <<SubSeq(s, 1, i - 1)>> \o Split(SubSeq(s, i + Len(sep), Len(s)), sep)

IsSpace(r) == r \in {" ", "\t", "\n"}

RECURSIVE Fields(_)
Fields(s) ==
    IF s = <<>> THEN <<>>
    ELSE IF IsSpace(Head(s)) THEN Fields(Tail(s))
    ELSE LET stops == {i \in 1..Len(s) : IsSpace(s[i])}
             n == IF stops = {} THEN Len(s) + 1
                  ELSE CHOOSE i \in stops : \A j \in stops : i <= j
         IN  <<SubSeq(s, 1, n - 1)>> \o Fields(SubSeq(s, n, Len(s)))

\* the predicate trimQuotes hands to strings.TrimFunc
IsQuote(r) == r = "'" \/ r = "\""

RECURSIVE TrimLeftQuotes(_)
TrimLeftQuotes(s) ==
    IF s # <<>> /\ IsQuote(Head(s)) THEN TrimLeftQuotes(Tail(s)) ELSE s

RECURSIVE TrimRightQuotes(_)
TrimRightQuotes(s) ==
    IF s # <<>> /\ IsQuote(s[Len(s)])
    THEN TrimRightQuotes(SubSeq(s, 1, Len(s) - 1))
    ELSE s

\* trimQuotes with the trimming forgotten
trimQuotes_NoTrim(clusterValue) == clusterValue

trimQuotes(clusterValue) == TrimRightQuotes(TrimLeftQuotes(clusterValue))

(***************************************************************************)
(* constants of package execute                                            *)
(***************************************************************************)
ClusterFlag == <<"-", "-", "c", "l", "u", "s", "t", "e", "r", "-", "n", "a", "m", "e">>
FollowFlag == <<"-", "-", "f", "o", "l", "l", "o", "w">>
AbbrFollowFlag == <<"-", "f">>
WatchFlag == <<"-", "-", "w", "a", "t", "c", "h">>
AbbrWatchFlag == <<"-", "w">>

Start == <<"s", "t", "a", "r", "t">>
Stop == <<"s", "t", "o", "p">>
Status == <<"s", "t", "a", "t", "u", "s">>
ShowConfig == <<"s", "h", "o", "w", "c", "o", "n", "f", "i", "g">>

FilterList == <<"l", "i", "s", "t">>
FilterEnable == <<"e", "n", "a", "b", "l", "e">>
FilterDisable == <<"d", "i", "s", "a", "b", "l", "e">>

W_get == <<"g", "e", "t">>
W_logs == <<"l", "o", "g", "s">>
W_top == <<"t", "o", "p">>
W_auth == <<"a", "u", "t", "h">>
W_diff == <<"d", "i", "f", "f">>
W_explain == <<"e", "x", "p", "l", "a", "i", "n">>
W_describe == <<"d", "e", "s", "c", "r", "i", "b", "e">>
W_api_resources == <<"a", "p", "i", "-", "r", "e", "s", "o", "u", "r", "c", "e", "s">>
W_api_versions == <<"a", "p", "i", "-", "v", "e", "r", "s", "i", "o", "n", "s">>
W_cluster_info == <<"c", "l", "u", "s", "t", "e", "r", "-", "i", "n", "f", "o">>
W_notifier == <<"n", "o", "t", "i", "f", "i", "e", "r">>
W_ping == <<"p", "i", "n", "g">>
W_version == <<"v", "e", "r", "s", "i", "o", "n">>
W_filters == <<"f", "i", "l", "t", "e", "r", "s">>
W_n == <<"-", "n">>
W_default == <<"d", "e", "f", "a", "u", "l", "t">>
W_c == <<"-", "c">>
W_versionScript == <<"/", "u", "s", "r", "/", "l", "o", "c", "a", "l", "/", "b", "i", "n", "/", "k", "u", "b", "e", "c", "t", "l", " ", "v", "e", "r", "s", "i", "o", "n", " ", "-", "-", "s", "h", "o", "r", "t", "=", "t", "r", "u", "e", " ", "|", " ", "g", "r", "e", "p", " ", "S", "e", "r", "v", "e", "r">>

validKubectlCommands ==
    {W_api_resources, W_api_versions, W_cluster_info, W_describe, W_diff,
     W_explain, W_get, W_logs, W_top, W_auth}
validNotifierCommand == {W_notifier}
validPingCommand == {W_ping}
validVersionCommand == {W_version}
validFilterCommand == {W_filters}

kubectlBinary == "/usr/local/bin/kubectl"

(***************************************************************************)
(* Response texts.  A text is a record naming the format string and its    *)
(* arguments; the empty string is EmptyText.  NoText is the response of an *)
(* Execute that panicked: it returned nothing.                             *)
(***************************************************************************)
EmptyText == [kind |-> "empty"]
NoText == [kind |-> "none"]
unsupportedCmdMsg == [kind |-> "unsupportedCmdMsg"]
incompleteCmdMsg == [kind |-> "incompleteCmdMsg"]
kubectlDisabledMsg(clusterName) == [kind |-> "kubectlDisabledMsg", cluster |-> clusterName]
notifierStartMsg(clusterName) == [kind |-> "notifierStartMsg", cluster |-> clusterName]
notifierStopMsg(clusterName) == [kind |-> "notifierStopMsg", cluster |-> clusterName]
filterEnabled(name, clusterName) ==
    [kind |-> "filterEnabled", name |-> name, cluster |-> clusterName]
filterDisabled(name, clusterName) ==
    [kind |-> "filterDisabled", name |-> name, cluster |-> clusterName]

\* len(text) == 0
IsEmpty(text) == text = EmptyText

(***************************************************************************)
(* What a handler does: the text it returns (or a panic), the runner       *)
(* invocations it made, and the process-wide state it leaves.              *)
(***************************************************************************)
Returned(text, calls, notify, filters) ==
    [panic |-> FALSE, text |-> text, calls |-> calls,
     Notify |-> notify, FiltersMap |-> filters]

Panicked(calls, notify, filters) ==
    [panic |-> TRUE, text |-> NoText, calls |-> calls,
     Notify |-> notify, FiltersMap |-> filters]

\* NewCommandRunner(command, args)
NewCommandRunner(command, args) == [command |-> command, args |-> args]

\* utils.DeleteDoubleWhiteSpace: drops the empty tokens
DeleteDoubleWhiteSpace(slice) == SelectSeq(slice, LAMBDA s : Len(s) # 0)

(***************************************************************************)
(* runKubectlCommand                                                       *)
(***************************************************************************)
\* the loop of runKubectlCommand from position index on (1-based); it ends by
\* "return" (return ""), by "panic" (index out of range) or by "end"
RECURSIVE KubectlLoop(_, _, _, _, _, _)
KubectlLoop(args, index, isClusterNameArg, isAuthChannel, finalArgs, clusterName) ==
    IF index > Len(args)
    THEN [exit |-> "end", finalArgs |-> finalArgs, isAuthChannel |-> isAuthChannel]
    ELSE
    LET arg == args[index]
        continue(skipNext, auth, final) ==
            KubectlLoop(args, index + 1, skipNext, auth, final, clusterName)
        stop(how) ==
            [exit |-> how, finalArgs |-> finalArgs, isAuthChannel |-> isAuthChannel]
    IN  IF isClusterNameArg
        THEN continue(FALSE, isAuthChannel, finalArgs)
        ELSE IF arg = AbbrFollowFlag \/ HasPrefix(arg, FollowFlag)
        THEN continue(FALSE, isAuthChannel, finalArgs)
        ELSE IF arg = AbbrWatchFlag \/ HasPrefix(arg, WatchFlag)
        THEN continue(FALSE, isAuthChannel, finalArgs)
        ELSE IF HasPrefix(arg, ClusterFlag)
        THEN IF arg = ClusterFlag
             THEN IF index = Len(args) \/ trimQuotes(args[index + 1]) # clusterName
                  THEN stop("return")
                  ELSE continue(TRUE, TRUE, finalArgs)
             ELSE LET parts == SplitAfterN(arg, ClusterFlag \o <<"=">>, 2)
                  IN  IF Len(parts) < 2
                      THEN stop("panic")
                      ELSE IF trimQuotes(parts[2]) # clusterName
                      THEN stop("return")
                      ELSE continue(FALSE, TRUE, finalArgs)
        ELSE continue(FALSE, isAuthChannel, Append(finalArgs, arg))

\* the results runKubectlCommand can have: runner.Run() succeeds or fails
runKubectlCommand(args, clusterName, isAuthChannel) ==
    LET all == <<W_n, W_default>> \o DeleteDoubleWhiteSpace(args)
        loop == KubectlLoop(all, 1, FALSE, isAuthChannel, <<>>, clusterName)
        runner == NewCommandRunner(kubectlBinary, loop.finalArgs)
    IN  IF loop.exit = "panic"
        THEN {Panicked(<<>>, Notify, FiltersMap)}
        ELSE IF loop.exit = "return" \/ loop.isAuthChannel = FALSE
        THEN {Returned(EmptyText, <<>>, Notify, FiltersMap)}
        ELSE {Returned([kind |-> "kubectlOutput", cluster |-> clusterName, err |-> err],
                       <<runner>>, Notify, FiltersMap) : err \in BOOLEAN}

(***************************************************************************)
(* runVersionCommand, findBotKubeVersion                                   *)
(***************************************************************************)
\* the kubectl version lookup succeeds or fails; the text is never empty
findBotKubeVersion ==
    {[text |-> [kind |-> "versions", k8sKnown |-> ~err],
      calls |-> <<NewCommandRunner("sh", <<W_c, W_versionScript>>)>>] : err \in BOOLEAN}

\* the loop of runVersionCommand: "return" (return ""), "panic" or "end"
RECURSIVE VersionLoop(_, _, _, _)
VersionLoop(args, index, checkFlag, clusterName) ==
    IF index > Len(args) THEN "end"
    ELSE
    LET arg == args[index]
    IN  IF checkFlag
        THEN IF arg # clusterName
             THEN "return"
             ELSE VersionLoop(args, index + 1, FALSE, clusterName)
        ELSE IF HasPrefix(arg, ClusterFlag)
        THEN IF arg = ClusterFlag
             THEN VersionLoop(args, index + 1, TRUE, clusterName)
             ELSE LET parts == SplitAfterN(arg, ClusterFlag \o <<"=">>, 2)
                  IN  IF Len(parts) < 2
                      THEN "panic"
                      ELSE IF parts[2] # clusterName
                      THEN "return"
                      ELSE VersionLoop(args, index + 1, FALSE, clusterName)
        ELSE VersionLoop(args, index + 1, FALSE, clusterName)

runVersionCommand(args, clusterName) ==
    LET exit == VersionLoop(args, 1, FALSE, clusterName)
    IN  IF exit = "panic"
        THEN {Panicked(<<>>, Notify, FiltersMap)}
        ELSE IF exit = "return"
        THEN {Returned(EmptyText, <<>>, Notify, FiltersMap)}
        ELSE {Returned(v.text, v.calls, Notify, FiltersMap) : v \in findBotKubeVersion}

(***************************************************************************)
(* showControllerConfig.  The configuration file is absent, or holds a     *)
(* malformed document, or holds key/value lines; config.Config is the      *)
(* struct of the fields below.                                             *)
(***************************************************************************)
SlackToken == "Communications.Slack.Token"
SlackChannel == "Communications.Slack.Channel"
SlackNotifType == "Communications.Slack.NotifType"
ElasticSearchPassword == "Communications.ElasticSearch.Password"

\* the fields of config.Config, in declaration order
ConfigFields == <<SlackToken, SlackChannel, SlackNotifType, ElasticSearchPassword>>

\* c := &config.Config{}: every field at its zero value
ZeroConfig == [f \in {ConfigFields[i] : i \in 1..Len(ConfigFields)} |-> ""]

\* yaml.Unmarshal(b, c): a known key sets its field (the last line of a key wins),
\* an unknown key is dropped, a field without a line keeps its value
Unmarshal(b, c) ==
    [f \in DOMAIN c |->
        LET at == {i \in 1..Len(b) : b[i].key = f}
        IN  IF at = {} THEN c[f]
            ELSE b[CHOOSE i \in at : \A j \in at : j <= i].value]

\* yaml.Marshal(c): one line per field, in declaration order
Marshal(c) ==
    [i \in 1..Len(ConfigFields) |-> [key |-> ConfigFields[i], value |-> c[ConfigFields[i]]]]

\* the redaction with the search-backend password left in
HideSensitive_TokenOnly(c) == [c EXCEPT ![SlackToken] = ""]

\* c.Communications.Slack.Token = ""; c.Communications.ElasticSearch.Password = ""
HideSensitive(c) == [c EXCEPT ![SlackToken] = "", ![ElasticSearchPassword] = ""]

\* what showControllerConfig returns for the file `file`
showControllerConfigOf(file) ==
    IF ~file.exists
    THEN [err |-> TRUE, configYaml |-> <<>>]
    ELSE IF Len(file.doc) # 0 /\ ~file.wellFormed
    THEN [err |-> TRUE, configYaml |-> <<>>]
    ELSE LET c == IF Len(file.doc) # 0 THEN Unmarshal(file.doc, ZeroConfig) ELSE ZeroConfig
         IN  [err |-> FALSE, configYaml |-> Marshal(HideSensitive(c))]

showControllerConfig == showControllerConfigOf(configFile)

(***************************************************************************)
(* runNotifierCommand                                                      *)
(***************************************************************************)
printDefaultMsg == unsupportedCmdMsg

\* runNotifierCommand past its isAuthChannel guard
NotifierSwitch(args, clusterName) ==
    IF Len(args) < 2
    THEN {Returned(incompleteCmdMsg, <<>>, Notify, FiltersMap)}
    ELSE IF args[2] = Start
    THEN {Returned(notifierStartMsg(clusterName), <<>>, TRUE, FiltersMap)}
    ELSE IF args[2] = Stop
    THEN {Returned(notifierStopMsg(clusterName), <<>>, FALSE, FiltersMap)}
    ELSE IF args[2] = Status
    THEN {Returned([kind |-> "notifierStatus", on |-> (Notify # FALSE),
                    cluster |-> clusterName], <<>>, Notify, FiltersMap)}
    ELSE IF args[2] = ShowConfig
    THEN LET out == showControllerConfig
         IN  IF out.err
             THEN {Returned([kind |-> "configError"], <<>>, Notify, FiltersMap)}
             ELSE {Returned([kind |-> "showconfig", cluster |-> clusterName,
                             yaml |-> out.configYaml], <<>>, Notify, FiltersMap)}
    ELSE {Returned(printDefaultMsg, <<>>, Notify, FiltersMap)}

\* runNotifierCommand without its isAuthChannel guard
runNotifierCommand_NoAuthCheck(args, clusterName, isAuthChannel) ==
    NotifierSwitch(args, clusterName)

runNotifierCommand(args, clusterName, isAuthChannel) ==
    IF isAuthChannel = FALSE
    THEN {Returned(EmptyText, <<>>, Notify, FiltersMap)}
    ELSE NotifierSwitch(args, clusterName)

(***************************************************************************)
(* runFilterCommand, makeFiltersList.  A filter is its type name and its   *)
(* Description; the filter engine keeps a Go map from filter to enabled.   *)
(***************************************************************************)
W_ImageTagChecker == <<"I", "m", "a", "g", "e", "T", "a", "g", "C", "h", "e", "c", "k", "e", "r">>
W_IngressValidator == <<"I", "n", "g", "r", "e", "s", "s", "V", "a", "l", "i", "d", "a", "t", "o", "r">>

ImageTagChecker ==
    [type |-> W_ImageTagChecker,
     Description |-> "Checks and adds recommendation if 'latest' image tag is used for container image."]

IngressValidator ==
    [type |-> W_IngressValidator,
     Description |-> "Checks if services and tls secrets used in ingress specs are available."]

\* the filters that register themselves
Filters == {ImageTagChecker, IngressValidator}

\* the orders in which a range over a Go map with key set keys can visit it
MapOrders(keys) ==
    {o \in [1..Cardinality(keys) -> keys] : \A k \in keys : \E i \in DOMAIN o : o[i] = k}

\* the tables makeFiltersList can print: the header, then one row per map entry
\* in the order the range visits them
makeFiltersList ==
    {[kind |-> "filtersList",
      rows |-> [i \in DOMAIN o |->
                  [filter |-> o[i].type, enabled |-> FiltersMap[o[i]],
                   description |-> o[i].Description]]] : o \in MapOrders(DOMAIN FiltersMap)}

\* filterengine.DefaultFilterEngine.Register(filter): adds or replaces, enabled
RegisterFilter(filter) ==
    [k \in DOMAIN FiltersMap \cup {filter} |-> IF k = filter THEN TRUE ELSE FiltersMap[k]]

\* filterengine.DefaultFilterEngine.SetFilter(name, flag)
SetFilter(name, flag) ==
    IF \E k \in DOMAIN FiltersMap : k.type = name
    THEN [err |-> FALSE,
          map |-> [k \in DOMAIN FiltersMap |-> IF k.type = name THEN flag ELSE FiltersMap[k]]]
    ELSE [err |-> TRUE, map |-> FiltersMap]

runFilterCommand(args, clusterName, isAuthChannel) ==
    IF isAuthChannel = FALSE
    THEN {Returned(EmptyText, <<>>, Notify, FiltersMap)}
    ELSE IF Len(args) < 2
    THEN {Returned(incompleteCmdMsg, <<>>, Notify, FiltersMap)}
    ELSE IF args[2] = FilterList
    THEN {Returned(list, <<>>, Notify, FiltersMap) : list \in makeFiltersList}
    ELSE IF args[2] = FilterEnable \/ args[2] = FilterDisable
    THEN IF Len(args) < 3
         THEN {Returned([kind |-> "filterNameMissing", list |-> list],
                        <<>>, Notify, FiltersMap) : list \in makeFiltersList}
         ELSE LET flag == (args[2] = FilterEnable)
                  set == SetFilter(args[3], flag)
              IN  IF set.err
                  THEN {Returned([kind |-> "invalidFilterName", name |-> args[3]],
                                 <<>>, Notify, FiltersMap)}
                  ELSE {Returned(IF flag THEN filterEnabled(args[3], clusterName)
                                         ELSE filterDisabled(args[3], clusterName),
                                 <<>>, Notify, set.map)}
    ELSE {Returned(printDefaultMsg, <<>>, Notify, FiltersMap)}

(***************************************************************************)
(* DefaultExecutor.Execute: the results Execute can have for executor ex   *)
(***************************************************************************)
\* the guard letting a pre-authorized channel through
KubectlPermitted_OrAuthChannel(ex) == ex.AllowKubectl \/ ex.IsAuthChannel

\* the guard of the cluster-command branch: e.AllowKubectl
KubectlPermitted(ex) == ex.AllowKubectl

DefaultExecutor_Execute(ex) ==
    LET args == Fields(ex.Message)
    IN  IF Len(args) = 0
        THEN {Panicked(<<>>, Notify, FiltersMap)}
        ELSE IF args[1] \in validKubectlCommands
        THEN IF ~KubectlPermitted(ex)
             THEN {Returned(kubectlDisabledMsg(ex.ClusterName), <<>>, Notify, FiltersMap)}
             ELSE runKubectlCommand(args, ex.ClusterName, ex.IsAuthChannel)
        ELSE IF args[1] \in validNotifierCommand
        THEN runNotifierCommand(args, ex.ClusterName, ex.IsAuthChannel)
        ELSE IF args[1] \in validPingCommand
        THEN {IF res.panic \/ IsEmpty(res.text)
              THEN res
              ELSE [res EXCEPT !.text = [kind |-> "pong", cluster |-> ex.ClusterName,
                                         versions |-> res.text]]
              : res \in runVersionCommand(args, ex.ClusterName)}
        ELSE IF args[1] \in validVersionCommand
        THEN runVersionCommand(args, ex.ClusterName)
        ELSE IF args[1] \in validFilterCommand
        THEN runFilterCommand(args, ex.ClusterName, ex.IsAuthChannel)
        ELSE IF ex.IsAuthChannel
        THEN {Returned(unsupportedCmdMsg, <<>>, Notify, FiltersMap)}
        ELSE {Returned(EmptyText, <<>>, Notify, FiltersMap)}

(***************************************************************************)
(* ImageTagChecker.Run                                                     *)
(***************************************************************************)
CreateEvent == "create"

\* the recommendation Run appends for a container of the given role
LatestTagAdvice(role, c) ==
    [kind |-> "latestTagUsed", role |-> role, image |-> c.Image, name |-> c.Name]

\* one of the two loops of Run: the advice for the containers cs, in order
RECURSIVE CheckContainers(_, _)
CheckContainers(role, cs) ==
    IF cs = <<>> THEN <<>>
    ELSE LET c == Head(cs)
             images == Split(c.Image, <<":">>)
         IN  (IF Len(images) = 1 \/ images[2] = <<"l", "a", "t", "e", "s", "t">>
              THEN <<LatestTagAdvice(role, c)>>
              ELSE <<>>)
             \o CheckContainers(role, Tail(cs))

\* event.Recommendations after f.Run(obj, ev)
ImageTagChecker_Run(obj, ev) ==
    IF ev.Kind # "Pod" \/ ev.Type # CreateEvent
    THEN ev.Recommendations
    ELSE IF ~obj.isPod
    THEN ev.Recommendations
    ELSE ev.Recommendations
         \o CheckContainers("initContainer", obj.InitContainers)
         \o CheckContainers("Container", obj.Containers)

(***************************************************************************)
(* Inputs                                                                  *)
(***************************************************************************)
W_prod == <<"p", "r", "o", "d">>
W_dev == <<"d", "e", "v">>
W_pods == <<"p", "o", "d", "s">>
W_true == <<"t", "r", "u", "e">>
W_bogus == <<"b", "o", "g", "u", "s">>
W_namespaceKube == <<"-", "-", "n", "a", "m", "e", "s", "p", "a", "c", "e", "=", "k", "u", "b", "e">>
W_nginx == <<"n", "g", "i", "n", "x">>
W_latest == <<"l", "a", "t", "e", "s", "t">>
W_registry == <<"r", "e", "g", ":", "5", "0", "0", "0", "/">>

Eq == <<"=">>
Sp == <<" ">>
SQ(s) == <<"'">> \o s \o <<"'">>
DQ(s) == <<"\"">> \o s \o <<"\"">>

\* the local cluster identities
ClusterNames == {W_prod, W_dev}

\* the tokens a generated cluster-command message draws its arguments from
ArgWords ==
    {W_namespaceKube,
     AbbrFollowFlag, AbbrFollowFlag \o Eq \o W_true, FollowFlag \o Eq \o W_true,
     AbbrWatchFlag,
     ClusterFlag, W_prod, DQ(W_prod),
     ClusterFlag \o Eq \o W_prod, ClusterFlag \o Eq \o SQ(W_prod),
     ClusterFlag \o Eq \o SQ(DQ(W_prod)), ClusterFlag \o Eq \o W_dev,
     ClusterFlag \o <<"s", "p", "a", "c", "e">>}

\* the verbs of the generated cluster-command messages
KubectlVerbs == {W_get}

RECURSIVE Join(_)
Join(tokens) ==
    IF tokens = <<>> THEN <<>>
    ELSE IF Len(tokens) = 1 THEN tokens[1]
    ELSE tokens[1] \o Sp \o Join(Tail(tokens))

SeqsUpTo(S, n) == UNION {[1..k -> S] : k \in 0..n}

\* a cluster-command verb followed by at most MaxArgs arguments
KubectlMessages ==
    {Join(<<v>> \o a) : v \in KubectlVerbs, a \in SeqsUpTo(ArgWords, MaxArgs)}

\* the messages of a chat session
SessionMessages ==
    {<<>>, Sp, Sp \o <<"\t">>,
     Sp \o W_notifier \o Sp \o Sp \o Start \o Sp}
    \cup {Join(t) : t \in
        {<<W_notifier>>, <<W_notifier, Start>>, <<W_notifier, Stop>>,
         <<W_notifier, Status>>, <<W_notifier, ShowConfig>>, <<W_notifier, W_bogus>>,
         <<W_filters>>, <<W_filters, FilterList>>, <<W_filters, FilterEnable>>,
         <<W_filters, FilterEnable, W_ImageTagChecker>>,
         <<W_filters, FilterDisable, W_ImageTagChecker>>,
         <<W_filters, FilterDisable, W_IngressValidator>>,
         <<W_filters, FilterEnable, W_bogus>>, <<W_filters, W_bogus>>,
         <<W_ping>>, <<W_ping, ClusterFlag>>, <<W_ping, ClusterFlag, W_prod>>,
         <<W_version>>, <<W_version, ClusterFlag \o Eq \o W_dev>>,
         <<W_version, ClusterFlag \o <<"s", "p", "a", "c", "e">>>>,
         <<W_get, W_pods>>, <<W_get, W_pods, ClusterFlag>>,
         <<W_logs, W_pods, AbbrFollowFlag, ClusterFlag \o Eq \o W_prod>>,
         <<W_get, ClusterFlag \o <<"s", "p", "a", "c", "e">>>>,
         <<W_bogus>>}}

\* the configuration files
Tokens == {"", "xoxb-A", "xoxb-B"}
Passwords == {"", "pw-A", "pw-B"}

ConfigDoc(token, password) ==
    <<[key |-> SlackToken, value |-> token],
      [key |-> SlackChannel, value |-> "general"],
      [key |-> "Settings.Unknown", value |-> "x"],
      [key |-> ElasticSearchPassword, value |-> password]>>

ConfigFiles ==
    {[exists |-> FALSE, wellFormed |-> FALSE, doc |-> <<>>],
     [exists |-> TRUE, wellFormed |-> TRUE, doc |-> <<>>],
     [exists |-> TRUE, wellFormed |-> FALSE, doc |-> <<[key |-> "", value |-> ":"]>>]}
    \cup {[exists |-> TRUE, wellFormed |-> TRUE, doc |-> ConfigDoc(t, p)] :
            t \in Tokens, p \in Passwords}

\* the Pods and events handed to the image-tag filter
Images ==
    {W_nginx, W_nginx \o <<":", "1", ".", "1", "4">>, W_nginx \o <<":">> \o W_latest,
     W_registry \o W_nginx, W_registry \o W_nginx \o <<":">> \o W_latest}
ContainerNames == {"app"}
ContainerSet == [Name : ContainerNames, Image : Images]
Objects ==
    [isPod : BOOLEAN,
     InitContainers : SeqsUpTo(ContainerSet, MaxContainers),
     Containers : SeqsUpTo(ContainerSet, MaxContainers)]
Events ==
    [Kind : {"Pod", "Node"}, Type : {CreateEvent, "update"},
     Recommendations : {<<>>, <<[kind |-> "earlier"]>>}]

(***************************************************************************)
(* State machine                                                           *)
(***************************************************************************)
NoExecutor == [Message |-> <<>>, none |-> TRUE]
NoObject == [isPod |-> FALSE, none |-> TRUE]
NoEvent == [Kind |-> "", none |-> TRUE]
NoFilters == [k \in {} |-> TRUE]
NoPosts == [id \in 1..MaxEvents |-> <<>>]

NewDefaultExecutor(msg, allowkubectl, clusterName, channelName, isAuthChannel) ==
    [Message |-> msg, AllowKubectl |-> allowkubectl, ClusterName |-> clusterName,
     ChannelName |-> channelName, IsAuthChannel |-> isAuthChannel]

\* the executors built for the messages msgs
Executors(msgs, clusters) ==
    {NewDefaultExecutor(m, a, c, "general", i) :
        m \in msgs, a \in BOOLEAN, c \in clusters, i \in BOOLEAN}

\* a notifier start/stop that an authorized channel issues: what it sets the flag to
Toggle(ex, before) ==
    LET args == Fields(ex.Message)
    IN  IF /\ ex.IsAuthChannel
           /\ Len(args) >= 2
           /\ args[1] = W_notifier
           /\ args[2] \in {Start, Stop}
        THEN args[2] = Start
        ELSE before

\* a message arrives: the caller builds its executor
Receive ==
    /\ pc = "idle"
    /\ \E ex \in Executors(SessionMessages, ClusterNames) : e' = ex
    /\ pc' = "ready"
    /\ UNCHANGED slackVars
    /\ UNCHANGED <<response, runnerCalls, Notify, FiltersMap, configFile,
                   lastToggle, object, event>>

\* the caller runs e.Execute()
Execute ==
    /\ pc = "ready"
    /\ \E r \in DefaultExecutor_Execute(e) :
        /\ pc' = IF r.panic THEN "panic" ELSE "done"
        /\ response' = r.text
        /\ runnerCalls' = r.calls
        /\ Notify' = r.Notify
        /\ FiltersMap' = r.FiltersMap
    /\ lastToggle' = Toggle(e, lastToggle)
    /\ UNCHANGED slackVars
    /\ UNCHANGED <<e, configFile, object, event>>

\* the caller posts the response and drops the executor
Reply ==
    /\ pc = "done"
    /\ pc' = "idle"
    /\ e' = NoExecutor
    /\ response' = NoText
    /\ runnerCalls' = <<>>
    /\ UNCHANGED slackVars
    /\ UNCHANGED <<Notify, FiltersMap, configFile, lastToggle, object, event>>

\* a filter registers itself with the filter engine
Register ==
    /\ pc = "idle"
    /\ \E f \in Filters : FiltersMap' = RegisterFilter(f)
    /\ UNCHANGED slackVars
    /\ UNCHANGED <<pc, e, response, runnerCalls, Notify, configFile,
                   lastToggle, object, event>>

\* the filter engine runs the image-tag filter on (object, event)
RunImageTagChecker ==
    /\ pc = "filter"
    /\ event' = [event EXCEPT !.Recommendations = ImageTagChecker_Run(object, event)]
    /\ pc' = "filtered"
    /\ UNCHANGED slackVars
    /\ UNCHANGED <<e, response, runnerCalls, Notify, FiltersMap, configFile,
                   lastToggle, object>>

\* a chat session: messages arrive one after another
Init ==
    /\ pc = "idle"
    /\ e = NoExecutor
    /\ response = NoText
    /\ runnerCalls = <<>>
    /\ Notify \in BOOLEAN
    /\ lastToggle = Notify
    /\ FiltersMap = NoFilters
    /\ configFile \in ConfigFiles
    /\ object = NoObject
    /\ event = NoEvent
    /\ goroutines = {}
    /\ posts = NoPosts
    /\ sent = 0

Next == Receive \/ Execute \/ Reply \/ Register

Spec == Init /\ [][Next]_vars

\* one cluster-command message, executed once
InitPassthrough ==
    /\ pc = "ready"
    /\ e \in Executors(KubectlMessages, {W_prod})
    /\ response = NoText
    /\ runnerCalls = <<>>
    /\ Notify = TRUE
    /\ lastToggle = Notify
    /\ FiltersMap = [f \in {ImageTagChecker} |-> TRUE]
    /\ configFile \in {[exists |-> FALSE, wellFormed |-> FALSE, doc |-> <<>>]}
    /\ object = NoObject
    /\ event = NoEvent
    /\ goroutines = {}
    /\ posts = NoPosts
    /\ sent = 0

NextPassthrough == Execute

SpecPassthrough == InitPassthrough /\ [][NextPassthrough]_vars

\* one run of the image-tag filter
InitImageTag ==
    /\ pc = "filter"
    /\ e = NoExecutor
    /\ response = NoText
    /\ runnerCalls = <<>>
    /\ Notify = TRUE
    /\ lastToggle = Notify
    /\ FiltersMap = [f \in {ImageTagChecker} |-> TRUE]
    /\ configFile \in {[exists |-> FALSE, wellFormed |-> FALSE, doc |-> <<>>]}
    /\ object \in Objects
    /\ event \in Events
    /\ goroutines = {}
    /\ posts = NoPosts
    /\ sent = 0

NextImageTag == RunImageTagChecker

SpecImageTag == InitImageTag /\ [][NextImageTag]_vars

(***************************************************************************)
(* Slack.SendEvent, Slack.SendMessage (package notify).  A call is a task: *)
(* the function, its argument, the event it works for (id) and the number  *)
(* of redirections that led to it (hops); id and hops are history.         *)
(***************************************************************************)
\* the Slack object NewSlack returns: its default channel
TheSlack == [Channel |-> "general"]

\* what api.PostMessage can return: nil or an error text
PostResults == {"nil", "channel_not_found", "not_in_channel"}

\* the Channel of an event: empty, or the channel it is redirected to
EventChannels == {"", "alerts", "general"}

SendEventTask(id, hops, ev) ==
    [fn |-> "SendEvent", id |-> id, hops |-> hops, event |-> ev, msg |-> ""]

SendMessageTask(id, hops, msg) ==
    [fn |-> "SendMessage", id |-> id, hops |-> hops, event |-> [Channel |-> ""],
     msg |-> msg]

\* the event with its redirection forgotten to be reset
RedirectedEvent_ChannelKept(ev) == ev

\* event.Channel = "": the event SendEvent sends again
RedirectedEvent(ev) == [ev EXCEPT !.Channel = ""]

\* s.SendEvent(ev) when its api.PostMessage returns err: the channel posted to,
\* the value returned and the calls started with go (msg names the channel the
\* notice is about)
Slack_SendEvent(s, ev, err) ==
    IF ev.Channel # ""
    THEN [channel |-> ev.Channel, ret |-> err,
          go |-> IF err # "nil" /\ err = "channel_not_found"
                 THEN {[fn |-> "SendMessage", msg |-> ev.Channel,
                        event |-> [Channel |-> ""]],
                       [fn |-> "SendEvent", msg |-> "",
                        event |-> RedirectedEvent(ev)]}
                 ELSE {}]
    ELSE [channel |-> s.Channel, ret |-> err, go |-> {}]

\* s.SendMessage(msg) when its api.PostMessage returns err
Slack_SendMessage(s, msg, err) ==
    [channel |-> s.Channel, ret |-> err, go |-> {}]

\* the controller hands an event to the notifier
SendEventCall ==
    /\ sent < MaxEvents
    /\ sent' = sent + 1
    /\ \E c \in EventChannels :
        goroutines' = goroutines \cup {SendEventTask(sent + 1, 0, [Channel |-> c])}
    /\ UNCHANGED <<pc, e, response, runnerCalls, Notify, FiltersMap, configFile,
                   lastToggle, object, event, posts>>

\* a pending SendEvent runs
RunSendEvent ==
    /\ \E t \in goroutines, err \in PostResults :
        /\ t.fn = "SendEvent"
        /\ LET r == Slack_SendEvent(TheSlack, t.event, err)
           IN  /\ posts' = [posts EXCEPT ![t.id] =
                    Append(@, [by |-> "SendEvent", channel |-> r.channel,
                               err |-> err, hops |-> t.hops,
                               override |-> (t.event.Channel # "")])]
               /\ goroutines' = (goroutines \ {t}) \cup
                    {[fn |-> g.fn, id |-> t.id, hops |-> t.hops + 1,
                      event |-> g.event, msg |-> g.msg] : g \in r.go}
    /\ UNCHANGED <<pc, e, response, runnerCalls, Notify, FiltersMap, configFile,
                   lastToggle, object, event, sent>>

\* a pending SendMessage runs
RunSendMessage ==
    /\ \E t \in goroutines, err \in PostResults :
        /\ t.fn = "SendMessage"
        /\ LET r == Slack_SendMessage(TheSlack, t.msg, err)
           IN  /\ posts' = [posts EXCEPT ![t.id] =
                    Append(@, [by |-> "SendMessage", channel |-> r.channel,
                               err |-> err, hops |-> t.hops, override |-> FALSE])]
               /\ goroutines' = (goroutines \ {t}) \cup
                    {[fn |-> g.fn, id |-> t.id, hops |-> t.hops + 1,
                      event |-> g.event, msg |-> g.msg] : g \in r.go}
    /\ UNCHANGED <<pc, e, response, runnerCalls, Notify, FiltersMap, configFile,
                   lastToggle, object, event, sent>>

\* the Slack notifier at work
InitSlack ==
    /\ pc = "idle"
    /\ e = NoExecutor
    /\ response = NoText
    /\ runnerCalls = <<>>
    /\ Notify = TRUE
    /\ lastToggle = Notify
    /\ FiltersMap = NoFilters
    /\ configFile \in {[exists |-> FALSE, wellFormed |-> FALSE, doc |-> <<>>]}
    /\ object = NoObject
    /\ event = NoEvent
    /\ goroutines = {}
    /\ posts = NoPosts
    /\ sent = 0

NextSlack == SendEventCall \/ RunSendEvent \/ RunSendMessage

SpecSlack == InitSlack /\ [][NextSlack]_vars

\* the Go scheduler runs every goroutine that can run
SpecSlackFair ==
    SpecSlack /\ WF_vars(RunSendEvent) /\ WF_vars(RunSendMessage)

(***************************************************************************)
(* Properties.  What they say of a message is stated over the message's    *)
(* tokens, apart from the handlers above.                                  *)
(***************************************************************************)
Args == Fields(e.Message)
Finished == pc \in {"done", "panic"}
IsClusterCommand == Len(Args) > 0 /\ Args[1] \in validKubectlCommands
KubectlRuns == {i \in DOMAIN runnerCalls : runnerCalls[i].command = kubectlBinary}
RunnerInvoked == KubectlRuns # {}

\* s without the quote characters at its two ends, however many there are
Unquoted(s) ==
    LET inner == {i \in 1..Len(s) : ~IsQuote(s[i])}
    IN  IF inner = {} THEN <<>>
        ELSE SubSeq(s, CHOOSE i \in inner : \A j \in inner : i <= j,
                       CHOOSE i \in inner : \A j \in inner : j <= i)

\* s without one quote character at its head and one at its end
OneLayerOff(s) ==
    LET a == IF s # <<>> /\ IsQuote(Head(s)) THEN Tail(s) ELSE s
    IN  IF a # <<>> /\ IsQuote(a[Len(a)]) THEN SubSeq(a, 1, Len(a) - 1) ELSE a

\* --cluster-name=value
OneTokenForm(tok) == HasPrefix(tok, ClusterFlag \o Eq)
OneTokenValue(tok) == SubSeq(tok, Len(ClusterFlag) + 2, Len(tok))

\* the values the cluster-scope flags of the tokens t carry, in either form
FlagValues(t) ==
    {t[i + 1] : i \in {j \in 1..(Len(t) - 1) : t[j] = ClusterFlag}}
    \cup {OneTokenValue(t[i]) : i \in {j \in 1..Len(t) : OneTokenForm(t[j])}}

SomeFlagMismatches(t, clusterName, Trim(_)) ==
    \E v \in FlagValues(t) : Trim(v) # clusterName

SomeFlagMatches(t, clusterName, Trim(_)) ==
    \E v \in FlagValues(t) : Trim(v) = clusterName

\* a cluster-scope flag without a value: the flag as the last token, or a token
\* that begins with the flag and goes on with something else than =
FlagWithoutValue(t) ==
    \/ t # <<>> /\ t[Len(t)] = ClusterFlag
    \/ \E i \in 1..Len(t) :
        HasPrefix(t[i], ClusterFlag) /\ t[i] # ClusterFlag /\ ~OneTokenForm(t[i])

IsFollowFlag(tok) ==
    \/ tok \in {AbbrFollowFlag, FollowFlag}
    \/ HasPrefix(tok, AbbrFollowFlag \o Eq)
    \/ HasPrefix(tok, FollowFlag \o Eq)

IsWatchFlag(tok) ==
    \/ tok \in {AbbrWatchFlag, WatchFlag}
    \/ HasPrefix(tok, AbbrWatchFlag \o Eq)
    \/ HasPrefix(tok, WatchFlag \o Eq)

\* the tokens t without their follow, watch and cluster-scope flags
RECURSIVE Sanitized(_)
Sanitized(t) ==
    IF t = <<>> THEN <<>>
    ELSE IF IsFollowFlag(Head(t)) \/ IsWatchFlag(Head(t)) \/ OneTokenForm(Head(t))
    THEN Sanitized(Tail(t))
    ELSE IF Head(t) = ClusterFlag
    THEN Sanitized(SubSeq(t, 3, Len(t)))
    ELSE <<Head(t)>> \o Sanitized(Tail(t))

\* authorization as C1 states it
Authorized ==
    e.IsAuthChannel \/ SomeFlagMatches(Args, e.ClusterName, Unquoted)

\* The half of C1 that is about the runner alone: a cluster command reaches the
\* process runner only with passthrough enabled and authorization established.
RunnerOnlyIfAuthorized ==
    (Finished /\ IsClusterCommand /\ RunnerInvoked) => (e.AllowKubectl /\ Authorized)

\* C1: for a cluster-command verb the process runner is invoked only if passthrough
\* is enabled and authorization is established (pre-authorized channel, or a
\* --cluster-name flag whose value is the local cluster identity); in every other
\* case the runner is not invoked and, with passthrough enabled, Execute returns
\* the empty response.
C1_RunnerNeedsAuthorization ==
    (Finished /\ IsClusterCommand) =>
        /\ RunnerInvoked => (e.AllowKubectl /\ Authorized)
        /\ ~(e.AllowKubectl /\ Authorized) =>
            /\ ~RunnerInvoked
            /\ e.AllowKubectl => (pc = "done" /\ response = EmptyText)

\* C2: the arguments handed to the process runner hold no follow flag in any form:
\* -f or --follow, with or without an =value suffix.
C2_NoFollowFlagForwarded ==
    (Finished /\ IsClusterCommand) =>
        \A i \in KubectlRuns :
            \A j \in DOMAIN runnerCalls[i].args : ~IsFollowFlag(runnerCalls[i].args[j])

C4_ExecuteNeverPanics == pc # "panic"

\* C5: with passthrough disabled, a cluster-command message gets the fixed "not
\* permitted on this cluster" message and nothing else happens: no runner
\* invocation, no panic on any token, pre-authorized channel or not.
C5_DisabledMessage ==
    (pc # "ready" /\ IsClusterCommand /\ ~e.AllowKubectl) =>
        /\ pc = "done"
        /\ response = [kind |-> "kubectlDisabledMsg", cluster |-> e.ClusterName]
        /\ runnerCalls = <<>>

\* passthrough is disabled and a pre-authorized channel sends a command whose
\* cluster-scope flag has no value
C5_Witness ==
    /\ pc = "done" /\ IsClusterCommand /\ ~e.AllowKubectl /\ e.IsAuthChannel
    /\ FlagWithoutValue(Args)
    /\ response.kind = "kubectlDisabledMsg"

\* C6: the arguments handed to the process runner are -n default followed by the
\* message's tokens in their order, without the follow flags, the watch flags and
\* the cluster-scope flags (both tokens of the two-token form), every other token
\* unchanged.
C6_ForwardedArguments ==
    (Finished /\ IsClusterCommand /\ RunnerInvoked) =>
        /\ Cardinality(KubectlRuns) = 1
        /\ \A i \in KubectlRuns :
            runnerCalls[i].args = <<W_n, W_default>> \o Sanitized(Args)

IsNotifierCommand == Len(Args) > 0 /\ Args[1] = W_notifier

\* C7: the notifier flag is what the last start/stop of a pre-authorized channel
\* set (the initial value if there was none), a status query of a pre-authorized
\* channel reports it, and a notifier command of another channel gets the empty
\* response.
C7_NotifierStatus ==
    /\ Notify = lastToggle
    /\ (pc = "done" /\ IsNotifierCommand /\ e.IsAuthChannel
            /\ Len(Args) >= 2 /\ Args[2] = Status) =>
        response = [kind |-> "notifierStatus", on |-> lastToggle,
                    cluster |-> e.ClusterName]
    /\ (pc = "done" /\ IsNotifierCommand /\ ~e.IsAuthChannel) => response = EmptyText

\* a pre-authorized channel asks for the status and is told "on"
C7_Witness ==
    /\ pc = "done" /\ IsNotifierCommand /\ e.IsAuthChannel
    /\ Len(Args) >= 2 /\ Args[2] = Status
    /\ response.kind = "notifierStatus" /\ response.on

\* the order of the characters of filter names
Alphabet ==
    <<"A", "B", "C", "D", "E", "F", "G", "H", "I", "J", "K", "L", "M", "N", "O",
      "P", "Q", "R", "S", "T", "U", "V", "W", "X", "Y", "Z",
      "a", "b", "c", "d", "e", "f", "g", "h", "i", "j", "k", "l", "m", "n", "o",
      "p", "q", "r", "s", "t", "u", "v", "w", "x", "y", "z">>
CharRank(c) == CHOOSE i \in DOMAIN Alphabet : Alphabet[i] = c

RECURSIVE StrLess(_, _)
StrLess(a, b) ==
    IF b = <<>> THEN FALSE
    ELSE IF a = <<>> THEN TRUE
    ELSE IF Head(a) = Head(b) THEN StrLess(Tail(a), Tail(b))
    ELSE CharRank(Head(a)) < CharRank(Head(b))

\* C8: the filters list holds one row per registered filter, with its identity,
\* its enabled state and its description, and the rows are sorted by identity.
C8_FiltersListSorted ==
    (pc = "done" /\ response.kind = "filtersList") =>
        LET rows == response.rows
        IN  /\ Len(rows) = Cardinality(DOMAIN FiltersMap)
            /\ \A f \in DOMAIN FiltersMap : \E i \in DOMAIN rows :
                rows[i] = [filter |-> f.type, enabled |-> FiltersMap[f],
                           description |-> f.Description]
            /\ \A i \in 1..(Len(rows) - 1) : StrLess(rows[i].filter, rows[i + 1].filter)

\* the tag of an image reference [registry[:port]/]name[:tag]: what follows the
\* colon of its last path component
LastComponent(image) ==
    LET slashes == {i \in 1..Len(image) : image[i] = "/"}
    IN  IF slashes = {} THEN image
        ELSE SubSeq(image, (CHOOSE i \in slashes : \A j \in slashes : j <= i) + 1,
                    Len(image))

HasTag(image) == Index(LastComponent(image), <<":">>) # 0

ImageTag(image) ==
    LET c == LastComponent(image)
    IN  SubSeq(c, Index(c, <<":">>) + 1, Len(c))

UntaggedOrLatest(image) == ~HasTag(image) \/ ImageTag(image) = W_latest

RECURSIVE ExpectedAdvice(_, _)
ExpectedAdvice(role, cs) ==
    IF cs = <<>> THEN <<>>
    ELSE (IF UntaggedOrLatest(Head(cs).Image)
          THEN <<[kind |-> "latestTagUsed", role |-> role,
                  image |-> Head(cs).Image, name |-> Head(cs).Name]>>
          ELSE <<>>)
         \o ExpectedAdvice(role, Tail(cs))

\* C9: for a Pod create event the image-tag filter appends one recommendation for
\* each init-container and then each container whose image has no tag or the tag
\* "latest", in spec order, and none for another tag; for another Kind or Type,
\* or an object that is no Pod, it appends nothing.
C9_ImageTagAdvice ==
    [][pc = "filter" =>
        event'.Recommendations =
            event.Recommendations
            \o (IF event.Kind = "Pod" /\ event.Type = "create" /\ object.isPod
                THEN ExpectedAdvice("initContainer", object.InitContainers)
                     \o ExpectedAdvice("Container", object.Containers)
                ELSE <<>>)]_vars

IsShowConfig ==
    /\ pc = "done" /\ IsNotifierCommand /\ e.IsAuthChannel
    /\ Len(Args) >= 2 /\ Args[2] = ShowConfig

\* the file with its auth token and its search-backend password replaced
WithSecrets(file, token, password) ==
    [file EXCEPT !.doc =
        [i \in DOMAIN file.doc |->
            IF file.doc[i].key = SlackToken
            THEN [key |-> SlackToken, value |-> token]
            ELSE IF file.doc[i].key = ElasticSearchPassword
            THEN [key |-> ElasticSearchPassword, value |-> password]
            ELSE file.doc[i]]]

\* the non-empty auth token and password the file stores
StoredSecrets(file) ==
    {file.doc[i].value : i \in {j \in DOMAIN file.doc :
        file.doc[j].key \in {SlackToken, ElasticSearchPassword}}} \ {""}

\* the showconfig response for the file, as runNotifierCommand builds it
ShowConfigResponse(file, clusterName) ==
    LET out == showControllerConfigOf(file)
    IN  IF out.err THEN [kind |-> "configError"]
        ELSE [kind |-> "showconfig", cluster |-> clusterName, yaml |-> out.configYaml]

\* C10: the showconfig response does not depend on the stored auth token and
\* search-backend password: it is the response every configuration differing
\* only in those two fields gets, and neither stored value is in it.
C10_ShowConfigRedacted ==
    IsShowConfig =>
        /\ \A t \in Tokens, p \in Passwords :
            response = ShowConfigResponse(WithSecrets(configFile, t, p), e.ClusterName)
        /\ response.kind = "showconfig" =>
            \A i \in DOMAIN response.yaml :
                response.yaml[i].value \notin StoredSecrets(configFile)

\* the configuration shown stores an auth token and a password
C10_Witness ==
    /\ IsShowConfig
    /\ Cardinality(StoredSecrets(configFile)) = 2
    /\ response.kind = "showconfig"

\* what was done and is pending for event id
PostsBy(id, fn) == {i \in DOMAIN posts[id] : posts[id][i].by = fn}
Pending(id, fn) == {t \in goroutines : t.id = id /\ t.fn = fn}

\* the SendEvent posts of event id to its override channel that failed with
\* channel_not_found
Redirections(id) ==
    {i \in PostsBy(id, "SendEvent") :
        posts[id][i].override /\ posts[id][i].err = "channel_not_found"}

\* the re-sends of event id: the SendEvent calls a redirection started
ResendPosts(id) == {i \in PostsBy(id, "SendEvent") : posts[id][i].hops > 0}
ResendsPending(id) == {t \in Pending(id, "SendEvent") : t.hops > 0}

\* C11: a SendEvent to an override channel that fails with channel_not_found
\* starts exactly one notice message and one re-send of the event, both to the
\* default channel, the re-send with the override channel cleared; the re-send
\* starts nothing, whatever its outcome, and neither does a SendEvent to the
\* default channel or a failure with another error.  So an event has at most
\* three post attempts and no call more than one redirection behind it.
C11_BoundedRedirection ==
    \A id \in 1..MaxEvents :
        LET P == posts[id]
            notices == Cardinality(PostsBy(id, "SendMessage"))
                       + Cardinality(Pending(id, "SendMessage"))
            resends == Cardinality(ResendPosts(id)) + Cardinality(ResendsPending(id))
        IN  /\ Cardinality(Redirections(id)) <= 1
            /\ notices = Cardinality(Redirections(id))
            /\ resends = Cardinality(Redirections(id))
            /\ \A i \in Redirections(id) : P[i].hops = 0
            /\ \A i \in PostsBy(id, "SendMessage") : P[i].channel = TheSlack.Channel
            /\ \A i \in ResendPosts(id) :
                ~P[i].override /\ P[i].channel = TheSlack.Channel
            /\ \A t \in ResendsPending(id) : t.event.Channel = ""
            /\ \A t \in {g \in goroutines : g.id = id} : t.hops <= 1
            /\ Len(P) + Cardinality({g \in goroutines : g.id = id}) <= 3

\* an event was redirected, its notice and its re-send were posted, the re-send
\* failed with channel_not_found too, and nothing is left to run for it
C11_Witness ==
    \E id \in 1..MaxEvents :
        /\ Len(posts[id]) = 3
        /\ {g \in goroutines : g.id = id} = {}
        /\ \E i \in ResendPosts(id) : posts[id][i].err = "channel_not_found"

\* the redirections end: time and again no call is left to run
C11_Terminates == []<>(goroutines = {})

====
